---- MODULE Spec2Model ----
(***************************************************************************)
(* Modal-display coordination of the blog: the useModal hook and its       *)
(* ModalInfo dialog (src/components/modal.js) driven by the Layout page    *)
(* shell (src/components/layout.js).                                       *)
(*                                                                         *)
(* React is modelled at the granularity of one render pass and one effect  *)
(* callback: a render snapshots the state it closes over and queues the    *)
(* effects whose dependencies changed, the effects then run in declaration *)
(* order against that snapshot, and state setters schedule a re-render.    *)
(***************************************************************************)
EXTENDS Naturals, Sequences, FiniteSets, TLC

VARIABLES
    hist,          \* browser history stack: sequence of URLs
    idx,           \* index of the current history entry; location == hist[idx]
    navPending,    \* navigate("/") calls whose page load has not resolved yet
    isShow,        \* usePortal visibility state
    type,          \* useState(null) in useModal
    info,          \* useState({}) in useModal
    dirty,         \* a state or prop change has scheduled a re-render
    rType,         \* type as closed over by the last render
    rInfo,         \* info as closed over by the last render
    rSource,       \* source as parsed by the last render
    effQ,          \* effects of the last commit still to run, in order
    setTypeCalls,  \* setType calls made by Layout since the last URL event
    navCalls,      \* navigate calls made by Layout since the last URL event
    srcFresh,      \* the last render observed a source it had not seen before
    reactions,     \* runs of the Layout reaction body (setType + navigate)
    rerenders,     \* spontaneous re-renders so far
    urlEvents,     \* reloads and back/forward steps so far
    obs,           \* the last URL event: how the URL was reached and its source
    dismissed,     \* the user dismissed the modal since the last mount
    last,          \* the last host call or user input
    calls          \* the calls made by the latest run of the Layout reaction

vars == << hist, idx, navPending, isShow, type, info, dirty, rType, rInfo,
           rSource, effQ, setTypeCalls, navCalls, srcFresh, reactions,
           rerenders, urlEvents, obs, dismissed, last, calls >>

----------------------------------------------------------------------------
(* Bounds *)

MaxRerenders == 2
MaxUrlEvents == 2

----------------------------------------------------------------------------
(* JavaScript values *)

Null == "null"
Undefined == "undefined"

\* An object is a record whose ref field is its identity; {} and the
\* undefined value share the record shape so that they can be compared.
EmptyObject ==
    [ref |-> "{}", type |-> Undefined, title |-> Undefined,
     description |-> Undefined]
UndefinedValue ==
    [ref |-> "undefined", type |-> Undefined, title |-> Undefined,
     description |-> Undefined]

\* Object.is / === on primitives and object references
StrictEquals(a, b) == a = b

\* truthiness of a string-or-undefined value
Truthy(v) == v # Undefined /\ v # Null /\ v # ""

----------------------------------------------------------------------------
(* modal.js: the content table *)

EMAIL_CONFIRMATION == "email-confirmation"
CONFIRMATION_SUCCESS == "confirmation-success"

MODAL_DATA ==
    << [ref |-> "MODAL_DATA[0]", type |-> EMAIL_CONFIRMATION,
        title |-> "Success!",
        description |-> "Now check your email to confirm your subscription"],
       [ref |-> "MODAL_DATA[1]", type |-> CONFIRMATION_SUCCESS,
        title |-> "Done!",
        description |-> "Thanks for subscribing!"] >>

\* the filter with its comparison inverted
FilterByType_Inverted(t) == SelectSeq(MODAL_DATA, LAMBDA item : ~StrictEquals(item.type, t))

\* the lookup without its filter: every item is kept
FilterByType_KeepAll(t) == MODAL_DATA

\* MODAL_DATA.filter(item => item.type === type)
FilterByType(t) == SelectSeq(MODAL_DATA, LAMBDA item : StrictEquals(item.type, t))

\* setInfo(...info): the setter takes its first argument, undefined if none
SpreadFirst(args) == IF Len(args) = 0 THEN UndefinedValue ELSE args[1]

\* info?.title and info?.description as passed to ModalInfo
OptTitle(i) == IF i = UndefinedValue THEN Undefined ELSE i.title
OptDescription(i) == IF i = UndefinedValue THEN Undefined ELSE i.description

----------------------------------------------------------------------------
(* layout.js: URLs and the query string *)

\* a marker list with a value the content table has no entry for
QUERIES_Extra == << EMAIL_CONFIRMATION, CONFIRMATION_SUCCESS, "unsubscribed" >>

QUERIES == << EMAIL_CONFIRMATION, CONFIRMATION_SUCCESS >>

PATH_PREFIX == ""
rootPath == PATH_PREFIX \o "/"

Param(k, v) == [key |-> k, val |-> v]

\* query strings a page can be loaded with, as sequences of key=value pairs
Searches ==
    { << >>,
      << Param("source", EMAIL_CONFIRMATION) >>,
      << Param("source", CONFIRMATION_SUCCESS) >>,
      << Param("source", "unsubscribed") >>,
      << Param("ref", EMAIL_CONFIRMATION) >>,
      << Param("ref", "twitter"), Param("source", CONFIRMATION_SUCCESS) >>,
      << Param("source", EMAIL_CONFIRMATION), Param("source", CONFIRMATION_SUCCESS) >> }

Pathnames == { rootPath, PATH_PREFIX \o "/hello-world/" }

Url(p, s) == [pathname |-> p, search |-> s]
Urls == { Url(p, s) : p \in Pathnames, s \in Searches }

\* const { source } = qs.parse(location.search, { ignoreQueryPrefix: true })
\* absent key: undefined; one occurrence: the string; several: an array
ParseSource(search) ==
    LET vals == SelectSeq(search, LAMBDA p : p.key = "source")
    IN  IF Len(vals) = 0 THEN [kind |-> "undefined", val |-> Undefined]
        ELSE IF Len(vals) = 1 THEN [kind |-> "string", val |-> vals[1].val]
        ELSE [kind |-> "array", val |-> vals[1].val]

\* query === source
MatchesQuery(query, source) == source.kind = "string" /\ StrictEquals(query, source.val)

\* the membership test accepting any source string
IsRecognized_AnyString(source) == source.kind = "string"

\* QUERIES.some(query => query === source)
IsRecognized(source) == \E i \in 1..Len(QUERIES) : MatchesQuery(QUERIES[i], source)

\* the effect without a dependency list: it runs after every render
SourceDepChanged_EveryRender(old, new) == TRUE

\* dependency comparison of the [source, setType] effect: setType is stable,
\* a parsed array is a fresh object on every render
SourceDepChanged(old, new) == new.kind = "array" \/ ~StrictEquals(old, new)

\* the effects given an empty dependency list: they run at mount only
DepChanged_MountOnly(old, new) == FALSE

\* dependency comparison of the [type] and [info] effects
DepChanged(old, new) == ~StrictEquals(old, new)

\* a navigation that keeps the page and its query string
NavigateTarget_SamePage == Url(PATH_PREFIX \o "/hello-world/",
                               << Param("source", EMAIL_CONFIRMATION) >>)

\* the target of navigate("/")
NavigateTarget == Url(rootPath, << >>)

location == hist[idx]

----------------------------------------------------------------------------
(* ModalInfo: the rendered dialog *)

\* elements of the dialog, each with its ancestors up to the backdrop
Targets == { "modal", "modal-container", "modal-bar", "modal-close",
             "modal-close-span", "modal-content-container", "modal-header",
             "modal-content", "modal-button" }

ParentOf(el) ==
    CASE el = "modal-container" -> "modal"
      [] el = "modal-bar" -> "modal-container"
      [] el = "modal-close" -> "modal-bar"
      [] el = "modal-close-span" -> "modal-close"
      [] el = "modal-content-container" -> "modal-container"
      [] el = "modal-header" -> "modal-content-container"
      [] el = "modal-content" -> "modal-content-container"
      [] el = "modal-button" -> "modal-content-container"
      [] OTHER -> "none"

\* the id attribute of an element: only the backdrop has one
IdOf(el) == IF el = "modal" THEN "modal" ELSE ""

\* the backdrop handler without its check of the event target
handleClickBackdrop_AnyTarget(target, shown) == FALSE

\* handleClickBackdrop: hides only when the event target is the backdrop
handleClickBackdrop(target, shown) == IF IdOf(target) = "modal" THEN FALSE ELSE shown

\* the handlers with the two buttons left without onClick
OnClick_NoButtonHandler(el, target, shown) ==
    CASE el = "modal" -> handleClickBackdrop(target, shown)
      [] OTHER -> shown

\* the onClick handler of one element, applied to the visibility
OnClick(el, target, shown) ==
    CASE el = "modal" -> handleClickBackdrop(target, shown)
      [] el = "modal-close" -> FALSE
      [] el = "modal-button" -> FALSE
      [] OTHER -> shown

\* a click bubbles from its target up to the backdrop
RECURSIVE Bubble(_, _, _)
Bubble(el, target, shown) ==
    IF el = "none" THEN shown
    ELSE Bubble(ParentOf(el), target, OnClick(el, target, shown))

Dispatch(target, shown) == Bubble(target, target, shown)

----------------------------------------------------------------------------
(* useModal(options) and the options it hands to usePortal *)

\* useModal(options = {}): Layout passes none
NoOptions == [defaultShow |-> "absent"]

\* options a host may pass
HostOptions == { [defaultShow |-> d] : d \in { "absent", "true", "false" } }

\* the override written before the spread, so that the host's value wins
PortalOptions_SpreadLast(options) ==
    IF options.defaultShow = "absent"
    THEN [options EXCEPT !.defaultShow = "false"]
    ELSE options

\* { ...options, defaultShow: false }
PortalOptions(options) == [options EXCEPT !.defaultShow = "false"]

\* the initial visibility of the portal: defaultShow, true when not given
InitialShow(portalOptions) == portalOptions.defaultShow # "false"

----------------------------------------------------------------------------
(* Mounting *)

Quiescent == ~dirty /\ effQ = << >>

NoCall == [op |-> "none", key |-> "", wasShow |-> FALSE, wasType |-> Null,
           wasInfo |-> EmptyObject, wasQuiet |-> TRUE]

\* a fresh mount of the hook state: useState(null), useState({}),
\* defaultShow: false, and every effect queued for the first commit
MountModal(effects) ==
    /\ isShow' = InitialShow(PortalOptions(NoOptions))
    /\ type' = Null
    /\ info' = EmptyObject
    /\ rType' = Null
    /\ rInfo' = EmptyObject
    /\ effQ' = effects
    /\ dirty' = FALSE

Init ==
    /\ \E u \in Urls : hist = << u >> /\ rSource = ParseSource(u.search)
                       /\ obs = [op |-> "load", source |-> ParseSource(u.search), url |-> u,
                                 len |-> 1]
    /\ idx = 1
    /\ navPending = 0
    /\ isShow = InitialShow(PortalOptions(NoOptions))
    /\ type = Null
    /\ info = EmptyObject
    /\ rType = Null
    /\ rInfo = EmptyObject
    /\ effQ = << "type", "info", "source" >>
    /\ dirty = FALSE
    /\ setTypeCalls = 0
    /\ navCalls = 0
    /\ srcFresh = TRUE
    /\ reactions = 0
    /\ rerenders = 0
    /\ urlEvents = 0
    /\ dismissed = FALSE
    /\ last = NoCall
    /\ calls = << >>

----------------------------------------------------------------------------
(* React: render and effects *)

\* a render that always schedules another render
DoRender_StaysDirty ==
    LET src == ParseSource(location.search)
    IN  /\ effQ = << >>
        /\ rType' = type
        /\ rInfo' = info
        /\ rSource' = src
        /\ effQ' = (IF DepChanged(rType, type) THEN << "type" >> ELSE << >>)
                   \o (IF DepChanged(rInfo, info) THEN << "info" >> ELSE << >>)
                   \o (IF SourceDepChanged(rSource, src) THEN << "source" >> ELSE << >>)
        /\ srcFresh' = (rSource # src)
        /\ dirty' = TRUE
        /\ UNCHANGED << hist, idx, navPending, isShow, type, info, setTypeCalls,
                        navCalls, reactions, urlEvents, obs, dismissed, last, calls >>

\* one render pass of Layout (and of the hook inside it)
DoRender ==
    LET src == ParseSource(location.search)
    IN  /\ effQ = << >>
        /\ rType' = type
        /\ rInfo' = info
        /\ rSource' = src
        /\ effQ' = (IF DepChanged(rType, type) THEN << "type" >> ELSE << >>)
                   \o (IF DepChanged(rInfo, info) THEN << "info" >> ELSE << >>)
                   \o (IF SourceDepChanged(rSource, src) THEN << "source" >> ELSE << >>)
        /\ srcFresh' = (rSource # src)
        /\ dirty' = FALSE
        /\ UNCHANGED << hist, idx, navPending, isShow, type, info, setTypeCalls,
                        navCalls, reactions, urlEvents, obs, dismissed, last, calls >>

\* the re-render scheduled by a state or prop change
Render == dirty /\ DoRender /\ UNCHANGED rerenders

\* a re-render with nothing changed (the parent re-rendered)
Rerender ==
    /\ ~dirty
    /\ rerenders < MaxRerenders
    /\ rerenders' = rerenders + 1
    /\ DoRender

\* the type effect looking up the key but never storing the result
RunTypeEffect_NoSetInfo ==
    /\ effQ # << >> /\ Head(effQ) = "type"
    /\ effQ' = Tail(effQ)
    /\ UNCHANGED << hist, idx, navPending, isShow, type, info, dirty, rType,
                    rInfo, rSource, setTypeCalls, navCalls, srcFresh, reactions,
                    rerenders, urlEvents, obs, dismissed, last, calls >>

\* the type effect hiding the dialog before it stores the new content
RunTypeEffect_HideFirst ==
    /\ effQ # << >> /\ Head(effQ) = "type"
    /\ effQ' = Tail(effQ)
    /\ isShow' = FALSE
    /\ info' = SpreadFirst(FilterByType(rType))
    /\ dirty' = TRUE
    /\ UNCHANGED << hist, idx, navPending, type, rType, rInfo, rSource,
                    setTypeCalls, navCalls, srcFresh, reactions, rerenders,
                    urlEvents, obs, dismissed, last, calls >>

\* useEffect(() => { setInfo(...MODAL_DATA.filter(...)) }, [type])
RunTypeEffect ==
    /\ effQ # << >> /\ Head(effQ) = "type"
    /\ effQ' = Tail(effQ)
    /\ info' = SpreadFirst(FilterByType(rType))
    /\ dirty' = (dirty \/ ~StrictEquals(info, info'))
    /\ UNCHANGED << hist, idx, navPending, isShow, type, rType, rInfo, rSource,
                    setTypeCalls, navCalls, srcFresh, reactions, rerenders,
                    urlEvents, obs, dismissed, last, calls >>

\* the info effect without its check of info?.title
RunInfoEffect_Unguarded ==
    /\ effQ # << >> /\ Head(effQ) = "info"
    /\ effQ' = Tail(effQ)
    /\ isShow' = TRUE
    /\ dirty' = (dirty \/ isShow' # isShow)
    /\ UNCHANGED << hist, idx, navPending, type, info, rType, rInfo, rSource,
                    setTypeCalls, navCalls, srcFresh, reactions, rerenders,
                    urlEvents, obs, dismissed, last, calls >>

\* useEffect(() => { if (info?.title) show() }, [info])
RunInfoEffect ==
    /\ effQ # << >> /\ Head(effQ) = "info"
    /\ effQ' = Tail(effQ)
    /\ isShow' = IF Truthy(OptTitle(rInfo)) THEN TRUE ELSE isShow
    /\ dirty' = (dirty \/ isShow' # isShow)
    /\ UNCHANGED << hist, idx, navPending, type, info, rType, rInfo, rSource,
                    setTypeCalls, navCalls, srcFresh, reactions, rerenders,
                    urlEvents, obs, dismissed, last, calls >>

\* the reaction body with its two statements swapped
ReactionCalls_NavigateFirst(source) ==
    IF IsRecognized(source)
    THEN << [op |-> "navigate", arg |-> "/"],
            [op |-> "setType", arg |-> source.val] >>
    ELSE << >>

\* the calls the body of the Layout reaction makes, in statement order:
\* if (QUERIES.some(...)) { setType(source); navigate("/") }
ReactionCalls(source) ==
    IF IsRecognized(source)
    THEN << [op |-> "setType", arg |-> source.val], [op |-> "navigate", arg |-> "/"] >>
    ELSE << >>

\* useEffect(() => { if (QUERIES.some(...)) { setType(source); navigate("/") } },
\*           [source, setType])
RunSourceEffect ==
    /\ effQ # << >> /\ Head(effQ) = "source"
    /\ effQ' = Tail(effQ)
    /\ IF IsRecognized(rSource)
       THEN /\ type' = rSource.val
            /\ dirty' = (dirty \/ ~StrictEquals(type, type'))
            /\ navPending' = navPending + 1
            /\ setTypeCalls' = setTypeCalls + 1
            /\ navCalls' = navCalls + 1
            /\ reactions' = reactions + 1
       ELSE UNCHANGED << type, dirty, navPending, setTypeCalls, navCalls, reactions >>
    /\ calls' = ReactionCalls(rSource)
    /\ UNCHANGED << hist, idx, isShow, info, rType, rInfo, rSource, srcFresh,
                    rerenders, urlEvents, obs, dismissed, last >>

----------------------------------------------------------------------------
(* Navigation *)

\* the page load started by navigate("/") resolves: no replace option was
\* given, so the router pushes the target after the current entry, and the
\* mounted Layout receives the new location
NavigatePush(h, i, u) == SubSeq(h, 1, i) \o << u >>

\* a client-side location change between two URLs of the site leaves the
\* Layout instance, and with it the hook state, mounted
LayoutKeptMounted(from, to) == TRUE

NavComplete ==
    /\ navPending > 0
    /\ LayoutKeptMounted(location, NavigateTarget)
    /\ navPending' = navPending - 1
    /\ hist' = NavigatePush(hist, idx, NavigateTarget)
    /\ idx' = idx + 1
    /\ dirty' = TRUE
    /\ UNCHANGED << isShow, type, info, rType, rInfo, rSource, effQ, setTypeCalls,
                    navCalls, srcFresh, reactions, rerenders, urlEvents, obs,
                    dismissed, last, calls >>

\* Back / Forward between entries of the same document: the location prop of
\* the mounted Layout changes
PopState(j) ==
    /\ Quiescent
    /\ urlEvents < MaxUrlEvents
    /\ j \in 1..Len(hist)
    /\ LayoutKeptMounted(location, hist[j])
    /\ idx' = j
    /\ urlEvents' = urlEvents + 1
    /\ obs' = [op |-> "pop", source |-> ParseSource(hist[j].search), url |-> hist[j],
               len |-> Len(hist)]
    /\ setTypeCalls' = 0
    /\ navCalls' = 0
    /\ dirty' = TRUE
    /\ UNCHANGED << hist, navPending, isShow, type, info, rType, rInfo, rSource,
                    effQ, srcFresh, reactions, rerenders, dismissed, last, calls >>

Back == PopState(idx - 1)

Forward == PopState(idx + 1)

\* a full page load of the current URL: Layout and the hook state are
\* created afresh, whatever was pending is dropped with the old document
Reload ==
    /\ urlEvents < MaxUrlEvents
    /\ urlEvents' = urlEvents + 1
    /\ MountModal(<< "type", "info", "source" >>)
    /\ rSource' = ParseSource(location.search)
    /\ obs' = [op |-> "load", source |-> ParseSource(location.search), url |-> location,
               len |-> Len(hist)]
    /\ navPending' = 0
    /\ setTypeCalls' = 0
    /\ navCalls' = 0
    /\ srcFresh' = TRUE
    /\ reactions' = 0
    /\ dismissed' = FALSE
    /\ last' = NoCall
    /\ calls' = << >>
    /\ UNCHANGED << hist, idx, rerenders >>

----------------------------------------------------------------------------
(* User input on the dialog *)

\* a click on an element of the rendered dialog
Click(target) ==
    /\ Quiescent
    /\ isShow
    /\ isShow' = Dispatch(target, isShow)
    /\ dirty' = (isShow' # isShow)
    /\ dismissed' = (dismissed \/ ~isShow')
    /\ last' = [op |-> "click", key |-> target, wasShow |-> isShow,
                wasType |-> type, wasInfo |-> info, wasQuiet |-> TRUE]
    /\ UNCHANGED << hist, idx, navPending, type, info, rType, rInfo, rSource,
                    effQ, setTypeCalls, navCalls, srcFresh, reactions,
                    rerenders, urlEvents, obs, calls >>

ClickDialog == \E target \in Targets : Click(target)

\* usePortal is given no escToHide option, so the Escape key hides the portal
EscKey ==
    /\ Quiescent
    /\ isShow
    /\ isShow' = FALSE
    /\ dirty' = TRUE
    /\ dismissed' = TRUE
    /\ last' = [op |-> "esc", key |-> "", wasShow |-> isShow,
                wasType |-> type, wasInfo |-> info, wasQuiet |-> TRUE]
    /\ UNCHANGED << hist, idx, navPending, type, info, rType, rInfo, rSource,
                    effQ, setTypeCalls, navCalls, srcFresh, reactions,
                    rerenders, urlEvents, obs, calls >>

\* usePortal is given no clickOutsideToHide option, so a click whose target
\* lies outside the portal's content hides the portal
ClickOutside ==
    /\ Quiescent
    /\ isShow
    /\ isShow' = FALSE
    /\ dirty' = TRUE
    /\ dismissed' = TRUE
    /\ last' = [op |-> "outside", key |-> "", wasShow |-> isShow,
                wasType |-> type, wasInfo |-> info, wasQuiet |-> TRUE]
    /\ UNCHANGED << hist, idx, navPending, type, info, rType, rInfo, rSource,
                    effQ, setTypeCalls, navCalls, srcFresh, reactions,
                    rerenders, urlEvents, obs, calls >>

----------------------------------------------------------------------------
(* A host component calling the hook's operations directly *)

\* keys a host may pass to setType
HostKeys == { EMAIL_CONFIRMATION, CONFIRMATION_SUCCESS, "unsubscribed", "" }

\* setType storing the entry of the key together with the key
HostSetType_Atomic(key) ==
    /\ type' = key
    /\ info' = SpreadFirst(FilterByType(key))
    /\ dirty' = (dirty \/ ~StrictEquals(type, key))
    /\ last' = [op |-> "setType", key |-> key, wasShow |-> isShow,
                wasType |-> type, wasInfo |-> info, wasQuiet |-> Quiescent]
    /\ UNCHANGED << hist, idx, navPending, isShow, rType, rInfo, rSource,
                    effQ, setTypeCalls, navCalls, srcFresh, reactions,
                    rerenders, urlEvents, obs, dismissed, calls >>

\* setType(key)
HostSetType(key) ==
    /\ type' = key
    /\ dirty' = (dirty \/ ~StrictEquals(type, key))
    /\ last' = [op |-> "setType", key |-> key, wasShow |-> isShow,
                wasType |-> type, wasInfo |-> info, wasQuiet |-> Quiescent]
    /\ UNCHANGED << hist, idx, navPending, isShow, info, rType, rInfo, rSource,
                    effQ, setTypeCalls, navCalls, srcFresh, reactions,
                    rerenders, urlEvents, obs, dismissed, calls >>

HostSetTypeAny == \E key \in HostKeys : HostSetType(key)

\* show()
HostShow ==
    /\ isShow' = TRUE
    /\ dirty' = (dirty \/ ~isShow)
    /\ last' = [op |-> "show", key |-> "", wasShow |-> isShow,
                wasType |-> type, wasInfo |-> info, wasQuiet |-> Quiescent]
    /\ UNCHANGED << hist, idx, navPending, type, info, rType, rInfo, rSource,
                    effQ, setTypeCalls, navCalls, srcFresh, reactions,
                    rerenders, urlEvents, obs, dismissed, calls >>

\* hide() that also forgets the key and the content
HostHide_ClearsContent ==
    /\ isShow' = FALSE
    /\ type' = Null
    /\ info' = EmptyObject
    /\ dirty' = TRUE
    /\ last' = [op |-> "hide", key |-> "", wasShow |-> isShow,
                wasType |-> type, wasInfo |-> info, wasQuiet |-> Quiescent]
    /\ UNCHANGED << hist, idx, navPending, rType, rInfo, rSource,
                    effQ, setTypeCalls, navCalls, srcFresh, reactions,
                    rerenders, urlEvents, obs, dismissed, calls >>

\* hide()
HostHide ==
    /\ isShow' = FALSE
    /\ dirty' = (dirty \/ isShow)
    /\ last' = [op |-> "hide", key |-> "", wasShow |-> isShow,
                wasType |-> type, wasInfo |-> info, wasQuiet |-> Quiescent]
    /\ UNCHANGED << hist, idx, navPending, type, info, rType, rInfo, rSource,
                    effQ, setTypeCalls, navCalls, srcFresh, reactions,
                    rerenders, urlEvents, obs, dismissed, calls >>

----------------------------------------------------------------------------
(* Specifications *)

\* the site: Layout drives the hook from the URL
Next ==
    \/ Render
    \/ Rerender
    \/ RunTypeEffect
    \/ RunInfoEffect
    \/ RunSourceEffect
    \/ NavComplete
    \/ Back
    \/ Forward
    \/ Reload
    \/ ClickDialog
    \/ EscKey
    \/ ClickOutside

Spec == Init /\ [][Next]_vars

\* the reactive steps always run to completion and a started page load
\* resolves; user input and URL events are never forced
Fairness ==
    /\ WF_vars(Render)
    /\ WF_vars(RunTypeEffect)
    /\ WF_vars(RunInfoEffect)
    /\ WF_vars(RunSourceEffect)
    /\ WF_vars(NavComplete)

LiveSpec == Spec /\ Fairness

\* the hook on its own, mounted by a host that calls setType and show itself
ModalInit ==
    /\ hist = << NavigateTarget >>
    /\ idx = 1
    /\ navPending = 0
    /\ \E options \in HostOptions : isShow = InitialShow(PortalOptions(options))
    /\ type = Null
    /\ info = EmptyObject
    /\ rType = Null
    /\ rInfo = EmptyObject
    /\ rSource = ParseSource(<< >>)
    /\ effQ = << "type", "info" >>
    /\ dirty = FALSE
    /\ setTypeCalls = 0
    /\ navCalls = 0
    /\ srcFresh = TRUE
    /\ reactions = 0
    /\ rerenders = 0
    /\ urlEvents = 0
    /\ obs = [op |-> "load", source |-> ParseSource(<< >>), url |-> NavigateTarget,
              len |-> 1]
    /\ dismissed = FALSE
    /\ last = NoCall
    /\ calls = << >>

ModalNext ==
    \/ Render
    \/ Rerender
    \/ RunTypeEffect
    \/ RunInfoEffect
    \/ HostSetTypeAny
    \/ HostShow
    \/ HostHide
    \/ ClickDialog
    \/ EscKey
    \/ ClickOutside

ModalSpec == ModalInit /\ [][ModalNext]_vars

TypeOK ==
    /\ idx \in 1..Len(hist)
    /\ isShow \in BOOLEAN
    /\ dirty \in BOOLEAN

----------------------------------------------------------------------------
(* Properties of the hook on its own (ModalSpec) *)

TableKeys == { MODAL_DATA[i].type : i \in 1..Len(MODAL_DATA) }

\* the last external event was setType(key) on a controller that was hidden
SetTypeOnHidden(key) ==
    last.op = "setType" /\ last.key = key /\ ~last.wasShow

\* C1: after setType(K) on the freshly mounted controller (hidden, no key),
\* for K a key of the content table, the settled controller is visible and
\* displays the title and description of K's entry.
C1_SetTypeKnownKeyShowsEntry ==
    /\ (SetTypeOnHidden(EMAIL_CONFIRMATION) /\ last.wasType = Null /\ Quiescent)
         => /\ isShow
            /\ OptTitle(info) = "Success!"
            /\ OptDescription(info) = "Now check your email to confirm your subscription"
    /\ (SetTypeOnHidden(CONFIRMATION_SUCCESS) /\ last.wasType = Null /\ Quiescent)
         => /\ isShow
            /\ OptTitle(info) = "Done!"
            /\ OptDescription(info) = "Thanks for subscribing!"

C1_Witness ==
    /\ SetTypeOnHidden(CONFIRMATION_SUCCESS) /\ last.wasType = Null /\ Quiescent
    /\ isShow
    /\ OptTitle(info) = "Done!"

\* C2: after setType(K) on a settled hidden controller, for K not a key of
\* the content table, the controller never becomes visible and once settled
\* its content is unset (no title, no description).
C2_SetTypeUnknownKeyStaysHidden ==
    \A key \in HostKeys \ { EMAIL_CONFIRMATION, CONFIRMATION_SUCCESS } :
        (SetTypeOnHidden(key) /\ last.wasQuiet)
          => /\ ~isShow
             /\ Quiescent => /\ info = UndefinedValue
                             /\ OptTitle(info) = Undefined
                             /\ OptDescription(info) = Undefined

C2_Witness ==
    /\ SetTypeOnHidden("unsubscribed") /\ last.wasQuiet
    /\ last.wasType = EMAIL_CONFIRMATION
    /\ Quiescent
    /\ ~isShow
    /\ info = UndefinedValue

\* elements inside the dialog that are neither a button nor inside one
InnerTargets == { "modal-container", "modal-bar", "modal-content-container",
                  "modal-header", "modal-content" }

\* the close button (or the glyph inside it) and the OK button
ButtonTargets == { "modal-close", "modal-close-span", "modal-button" }

\* C8: while the modal is visible, a click whose target is the backdrop
\* hides it, and a click whose target is the dialog container or a
\* non-button element inside it leaves it visible.
C8_BackdropClickHidesInnerClickKeeps ==
    [][ /\ Click("modal") => ~isShow'
        /\ \A t \in InnerTargets : Click(t) => isShow' ]_vars

C8_Witness ==
    /\ last.op = "click" /\ last.key \in InnerTargets /\ last.wasShow
    /\ isShow

\* C9: while the modal is visible, a click on the close button or on the OK
\* button hides it, whatever the backdrop handler does with the bubbled event.
C9_ButtonClickHides ==
    [][ \A t \in ButtonTargets : Click(t) => ~isShow' ]_vars

C9_Witness ==
    /\ last.op = "click" /\ last.key \in ButtonTargets /\ last.wasShow
    /\ ~isShow

\* C10: from every settled hidden state of the controller, setType with a
\* key of the content table makes the settled controller visible.
C10_HiddenSetTypeKnownKeyShows ==
    \A key \in TableKeys :
        (SetTypeOnHidden(key) /\ last.wasQuiet /\ Quiescent) => isShow

----------------------------------------------------------------------------
(* Properties of the site (Spec, LiveSpec) *)

HasMarker(u) == IsRecognized(ParseSource(u.search))

\* the page was loaded (fresh mount) at a URL carrying a recognized marker
LoadedWithMarker == obs.op = "load" /\ IsRecognized(obs.source)

C4_SetTypeOnceAndRootUrl ==
    LoadedWithMarker =>
        /\ setTypeCalls <= 1
        /\ setTypeCalls = 1 => type = obs.source.val
        /\ (Quiescent /\ navPending = 0)
             => /\ setTypeCalls = 1
                /\ location.pathname = rootPath
                /\ location.search = << >>

C4_Witness ==
    /\ LoadedWithMarker
    /\ obs.source.val = EMAIL_CONFIRMATION
    /\ Quiescent /\ navPending = 0
    /\ rerenders >= 1
    /\ setTypeCalls = 1
    /\ location.pathname = rootPath /\ location.search = << >>

\* C5: once Layout has consumed the marker of a page load, the history
\* stack has the length it had at the load and holds no entry with a marker.
C5_ConsumptionReplacesEntry ==
    (LoadedWithMarker /\ navCalls = 1 /\ navPending = 0)
        => /\ Len(hist) = obs.len
           /\ \A i \in 1..Len(hist) : ~HasMarker(hist[i])

\* C6: after a page load whose source parameter is absent or not a
\* recognized marker, the modal stays hidden with no key and no content,
\* Layout calls neither setType nor navigate, and the URL and the history
\* stay as loaded, across the mount and any re-render.
C6_NoMarkerNoChange ==
    (obs.op = "load"
       /\ (obs.source.kind # "string"
             \/ obs.source.val \notin { EMAIL_CONFIRMATION, CONFIRMATION_SUCCESS }))
        => /\ ~isShow
           /\ type = Null
           /\ info \in { EmptyObject, UndefinedValue }
           /\ OptTitle(info) = Undefined /\ OptDescription(info) = Undefined
           /\ setTypeCalls = 0 /\ navCalls = 0 /\ navPending = 0
           /\ location = obs.url
           /\ Len(hist) = obs.len

C6_Witness ==
    /\ obs.op = "load"
    /\ obs.source.kind = "string" /\ obs.source.val = "unsubscribed"
    /\ Quiescent
    /\ rerenders >= 1
    /\ ~isShow /\ type = Null

\* C7: Layout calls setType and navigate only in the effect run that
\* follows a render which observed a source value different from the one of
\* the render before it (or the mount); a re-render observing the same
\* marker, also before the navigation has completed, triggers neither.
C7_ReactionOnlyOnSourceChange ==
    [][ (setTypeCalls' > setTypeCalls \/ navCalls' > navCalls
           \/ navPending' > navPending \/ reactions' > reactions)
         => srcFresh ]_vars

C7_Witness ==
    /\ LoadedWithMarker
    /\ HasMarker(location)
    /\ navPending = 1
    /\ rerenders >= 1
    /\ ~srcFresh
    /\ Quiescent
    /\ setTypeCalls = 1 /\ navCalls = 1


----------------------------------------------------------------------------
(* Further properties of the hook on its own (ModalSpec) *)

IsEntry(i) == \E j \in 1..Len(MODAL_DATA) : i = MODAL_DATA[j]

\* the content matches the key: the key's entry, or undefined if it has none
ContentMatchesKey ==
    /\ type \in TableKeys => (IsEntry(info) /\ info.type = type)
    /\ type \notin TableKeys => info = UndefinedValue

\* C11 as claimed: in every reachable state with a key set, the content is
\* the key's entry, or undefined if the key has no entry.
C11_ContentAlwaysMatchesKey == type # Null => ContentMatchesKey

\* C11 as amended: in every settled state the content is the key's entry, or
\* undefined if the key has no entry; and the info effect makes the
\* controller visible only when the info it rendered is a table entry.
C11_SettledContentMatchesKey ==
    /\ [](Quiescent => ContentMatchesKey)
    /\ [][ (RunInfoEffect /\ ~isShow /\ isShow') => IsEntry(rInfo) ]_vars

C11_Witness ==
    /\ Quiescent
    /\ last.op = "setType" /\ last.wasType = EMAIL_CONFIRMATION
    /\ type = CONFIRMATION_SUCCESS
    /\ info = MODAL_DATA[2]


\* the last external event was setType(key) with a key that has no entry,
\* made in a settled state
SetTypeUnknownOnSettled ==
    last.op = "setType" /\ last.key \notin TableKeys /\ last.wasQuiet

\* C12 as claimed: setType with a key that has no entry, called in any
\* settled state, leaves the visibility and the displayed title and
\* description as they were before the call.
C12_UnknownKeyIsNoOp ==
    (SetTypeUnknownOnSettled /\ Quiescent)
        => /\ isShow = last.wasShow
           /\ OptTitle(info) = OptTitle(last.wasInfo)
           /\ OptDescription(info) = OptDescription(last.wasInfo)

\* C12 as amended: setType with a key that has no entry, called in any
\* settled state, never changes the visibility, and once it has settled the
\* displayed title and description are empty.
C12_UnknownKeyKeepsVisibilityClearsContent ==
    SetTypeUnknownOnSettled
        => /\ isShow = last.wasShow
           /\ Quiescent => /\ OptTitle(info) = Undefined
                           /\ OptDescription(info) = Undefined

C12_Witness ==
    /\ SetTypeUnknownOnSettled
    /\ last.wasShow /\ last.wasInfo = MODAL_DATA[1]
    /\ Quiescent
    /\ isShow
    /\ OptTitle(info) = Undefined


\* C13: after setType(K2), K2 a key of the table, called while the modal is
\* visible showing the entry of K1, the modal is visible in every state that
\* follows (until the next host call or user input) and once settled it
\* displays the entry of K2.
C13_SetTypeWhileVisibleSwapsContent ==
    \A key \in TableKeys :
        (last.op = "setType" /\ last.key = key /\ last.wasShow /\ IsEntry(last.wasInfo))
          => /\ isShow
             /\ Quiescent => /\ IsEntry(info) /\ info.type = key
                             /\ OptTitle(info) # OptTitle(last.wasInfo)
                                  \/ last.wasInfo.type = key

C13_Witness ==
    /\ last.op = "setType" /\ last.key = CONFIRMATION_SUCCESS
    /\ last.wasShow /\ last.wasInfo = MODAL_DATA[1]
    /\ Quiescent
    /\ isShow
    /\ info = MODAL_DATA[2]


\* the targets whose click reaches hide(): the backdrop itself, the close
\* button and the OK button
HidingTargets == { "modal" } \cup ButtonTargets

\* C14 as stated: the modal goes from visible to hidden only by hide()
\* reached through a click on the backdrop, the close button or the OK
\* button (or called by the host); no other event hides it.
C14_OnlyDialogClicksHide ==
    (last.wasShow /\ ~isShow)
        => \/ last.op = "hide"
           \/ last.op = "click" /\ last.key \in HidingTargets

\* C14: the modal starts hidden whatever options the host passes; it becomes
\* visible only by show() (called by the host, or by the info effect for an
\* entry of the table) and becomes hidden only by hide(), by a click on the
\* backdrop, the close button or the OK button, by the Escape key or by a
\* click outside the portal.
C14_VisibilityMachine ==
    /\ ~isShow
    /\ [][ /\ (~isShow /\ isShow')
              => (HostShow \/ (RunInfoEffect /\ IsEntry(rInfo)))
           /\ (isShow /\ ~isShow')
              => \/ HostHide
                 \/ \E target \in HidingTargets : Click(target)
                 \/ EscKey
                 \/ ClickOutside ]_vars

C14_Witness ==
    /\ last.op = "esc"
    /\ last.wasShow
    /\ ~isShow
    /\ IsEntry(info)


\* the marker of the first entry was consumed and its navigation completed:
\* the session stands on an entry pushed by that navigation
MarkerConsumed == HasMarker(hist[1]) /\ idx > 1 /\ navPending = 0

\* C15: after a page load of the entry reached once a recognized marker was
\* consumed and the marker-stripping navigation completed (the load is of
\* the URL the session stands on), Layout calls neither setType nor
\* navigate and the modal stays hidden with no key, through the mount and
\* every re-render.
C15_ReloadAfterConsumptionStaysHidden ==
    (obs.op = "load" /\ MarkerConsumed /\ obs.url = location)
        => /\ setTypeCalls = 0
           /\ navCalls = 0
           /\ calls = << >>
           /\ type = Null
           /\ ~isShow

C15_Witness ==
    /\ obs.op = "load"
    /\ MarkerConsumed
    /\ obs.url = location
    /\ Quiescent
    /\ rerenders > 0
    /\ ~isShow


\* the content the table holds for a key
Lookup(key) == SpreadFirst(FilterByType(key))

\* C16: setType called with another key while the modal is visible on the
\* entry of its key leaves the modal visible with the old entry, which is no
\* longer the lookup result of the key: info is stale until the type effect
\* has run.  (The witness is a state where show() has just been executed
\* from a render whose info belongs to a key other than the current one.)
C16_SetTypeLeavesInfoStale ==
    [][ \A key \in HostKeys :
          (HostSetType(key) /\ isShow /\ IsEntry(info) /\ info = Lookup(type)
             /\ key # type)
            => /\ isShow'
               /\ type' = key
               /\ info' = info
               /\ info' # Lookup(type') ]_vars

C16_Witness ==
    /\ last.op = "setType" /\ ~last.wasShow /\ type = last.key
    /\ effQ = << >>
    /\ isShow
    /\ IsEntry(rInfo)
    /\ rInfo # Lookup(type)


\* the calls of one run of the Layout effect that handles a marker
MarkerRun(marker) == << [op |-> "setType", arg |-> marker],
                        [op |-> "navigate", arg |-> "/"] >>

\* C17: a run of the Layout effect either makes no call at all, or calls
\* setType(marker) and then navigate("/"), in this order, for a recognized
\* marker; it navigates exactly when it calls setType, stores the marker as
\* the key, and never changes the visibility itself.
C17_SetTypeThenNavigate ==
    [][ RunSourceEffect
          => /\ \/ calls' = << >>
                \/ \E marker \in { EMAIL_CONFIRMATION, CONFIRMATION_SUCCESS } :
                      /\ calls' = MarkerRun(marker)
                      /\ type' = marker
             /\ (navCalls' = navCalls + 1) <=> (calls' # << >>)
             /\ (setTypeCalls' = setTypeCalls + 1) <=> (calls' # << >>)
             /\ (navPending' = navPending + 1) <=> (calls' # << >>)
             /\ calls' = << >>
                  => UNCHANGED << navCalls, setTypeCalls, navPending, type >>
             /\ \A i \in 1..Len(calls') : calls'[i].op \notin { "show", "hide" }
             /\ isShow' = isShow ]_vars

C17_Witness ==
    /\ calls = MarkerRun(CONFIRMATION_SUCCESS)
    /\ type = CONFIRMATION_SUCCESS
    /\ navPending = 1
    /\ setTypeCalls = 1
    /\ ~isShow


\* the steps that reach hide(): the host's call and the user's dismissals
HideStep == HostHide \/ ClickDialog \/ EscKey \/ ClickOutside

\* C18: a step that reaches hide() leaves the key and the content as they
\* were, and on a hidden modal it changes neither the visibility nor
\* schedules a render; after a dismissal of a settled modal the key and the
\* content keep the values they had while it was visible, also once the
\* re-render that follows has settled.
C18_HideChangesOnlyVisibility ==
    /\ [][ HideStep
             => /\ type' = type
                /\ info' = info
                /\ ~isShow'
                     \/ \E target \in InnerTargets : Click(target)
                /\ ~isShow => (isShow' = isShow /\ dirty' = dirty) ]_vars
    /\ []( (last.op \in { "hide", "click", "esc", "outside" } /\ last.wasQuiet)
             => (type = last.wasType /\ info = last.wasInfo) )

C18_Witness ==
    /\ last.op = "hide"
    /\ last.wasQuiet /\ last.wasShow
    /\ Quiescent
    /\ ~isShow
    /\ IsEntry(info) /\ info = last.wasInfo
    /\ type \in TableKeys /\ type = last.wasType


\* the recognized markers
Markers == { QUERIES[i] : i \in 1..Len(QUERIES) }

\* C19: with Layout driving the hook, the recognized markers are exactly the
\* keys of the content table, the key is always unset or a key of the table,
\* and whenever the modal is visible the displayed title and description
\* are those of one entry of the table.
C19_ShellShowsOnlyTableEntries ==
    /\ Markers = TableKeys
    /\ type \in { Null } \cup TableKeys
    /\ isShow => \E j \in 1..Len(MODAL_DATA) :
                     /\ OptTitle(info) = MODAL_DATA[j].title
                     /\ OptDescription(info) = MODAL_DATA[j].description

C19_Witness ==
    /\ isShow
    /\ type = CONFIRMATION_SUCCESS
    /\ OptTitle(info) = MODAL_DATA[2].title
    /\ OptDescription(info) = MODAL_DATA[2].description
    /\ navPending = 0
    /\ ~HasMarker(location)


\* no render, effect or navigation is pending
Settled == Quiescent /\ navPending = 0

\* C20: from every state with a pending render, effect or navigation the
\* system reaches a state with nothing pending, and the marker reaction
\* runs at most once for the page load and once more per later URL event:
\* the reaction and its own navigation never re-trigger each other.
C20_ReactiveChainQuiesces ==
    /\ ~Settled ~> Settled
    /\ [](reactions <= urlEvents + 1)
    /\ [](navPending <= reactions)

C20_Witness ==
    /\ Settled
    /\ reactions = 1
    /\ obs.op = "load" /\ HasMarker(obs.url)
    /\ idx = 2
    /\ ~HasMarker(location)
    /\ isShow

====
